---- MODULE Spec2Model ----
(***************************************************************************)
(* Model of the bootstrap scripts of the package template:                 *)
(*   scripts/run_docker.py   stack-runner  (r_main and its helpers)         *)
(*   make_env.py             env-writer    (main, parse_kv,                 *)
(*                                          ensure_gitignore)               *)
(*   scripts/install_just.py tool-doctor   (check-just, install-just)       *)
(*                                                                         *)
(* Text is a sequence of one-character strings; "\n" is the newline.  A    *)
(* few fixed words of the program (command words, message texts, the       *)
(* credential key) are kept as one symbol each: none of them holds "=",    *)
(* white space or a newline.                                               *)
(***************************************************************************)
EXTENDS Integers, Sequences, FiniteSets

\* ------------------------------------------------------------------ bounds
\* A run issues at most MaxExtra free-form prompts before the blank line.
MaxExtra == 2
\* External commands exit with a status in 0..MaxRc.
MaxRc == 2
\* The ignore-list harness makes at most MaxCalls calls.
MaxCalls == 3

\* ------------------------------------------------------------ text helpers
NL == "\n"
SP == " "

\* str.join(sep, parts)
RECURSIVE Join(_, _)
Join(sep, parts) ==
    IF parts = <<>> THEN <<>>
    ELSE IF Len(parts) = 1 THEN parts[1]
    ELSE parts[1] \o sep \o Join(sep, Tail(parts))

\* str.split(sep) for a one-character separator: the pieces between the
\* separators, empty pieces kept.
RECURSIVE SplitOn(_, _)
SplitOn(s, sep) ==
    IF \A i \in 1..Len(s) : s[i] # sep THEN <<s>>
    ELSE LET i == CHOOSE k \in 1..Len(s) :
                      s[k] = sep /\ \A j \in 1..(k - 1) : s[j] # sep
         IN <<SubSeq(s, 1, i - 1)>> \o SplitOn(SubSeq(s, i + 1, Len(s)), sep)

\* str.splitlines(): the lines of a text, without their newlines; a final
\* newline opens no further line.
splitlines(text) ==
    IF text = <<>> THEN <<>>
    ELSE IF text[Len(text)] = NL
         THEN SplitOn(SubSeq(text, 1, Len(text) - 1), NL)
         ELSE SplitOn(text, NL)

IsSpace(c) == c \in {SP, NL}

\* str.strip(): leading and trailing white space removed.
RECURSIVE strip(_)
strip(s) ==
    IF s = <<>> THEN s
    ELSE IF IsSpace(s[1]) THEN strip(Tail(s))
    ELSE IF IsSpace(s[Len(s)]) THEN strip(SubSeq(s, 1, Len(s) - 1))
    ELSE s

\* str.lower()
lower(s) ==
    [i \in 1..Len(s) |->
        CASE s[i] = "Y" -> "y"
          [] s[i] = "E" -> "e"
          [] s[i] = "S" -> "s"
          [] s[i] = "N" -> "n"
          [] OTHER -> s[i]]

\* x in seq
In(x, seq) == \E i \in 1..Len(seq) : seq[i] = x

\* pair.split("=", 1): the text before the first "=" and the text after it.
SplitFirst(s) ==
    LET i == CHOOSE k \in 1..Len(s) :
                 s[k] = "=" /\ \A j \in 1..(k - 1) : s[j] # "="
    IN <<SubSeq(s, 1, i - 1), SubSeq(s, i + 1, Len(s))>>

\* ------------------------------------------------------------------ paths
RECURSIVE DropDots(_)
DropDots(parts) ==
    IF parts = <<>> THEN <<>>
    ELSE IF parts[1] = <<>> \/ parts[1] = <<".">> THEN DropDots(Tail(parts))
    ELSE <<parts[1]>> \o DropDots(Tail(parts))

\* pathlib's root of a POSIX path: exactly two leading slashes are kept, any
\* other number of them is one.
PathRoot(s) ==
    IF Len(s) >= 1 /\ s[1] = "/"
    THEN IF Len(s) >= 2 /\ s[2] = "/" /\ ~(Len(s) >= 3 /\ s[3] = "/")
         THEN <<"/", "/">>
         ELSE <<"/">>
    ELSE <<>>

\* Path(s).as_posix(): empty and "." components dropped, slashes collapsed,
\* no trailing slash, "." for the empty path.
as_posix(s) ==
    LET body == Join(<<"/">>, DropDots(SplitOn(s, "/")))
        root == PathRoot(s)
    IN IF root = <<>> /\ body = <<>> THEN <<".">> ELSE root \o body

\* str(Path(s)): the path with the separators of the running system.  The
\* paths of the model are relative ones.
PathStr(sys, s) ==
    LET p == as_posix(s)
    IN IF sys = "Windows"
       THEN [i \in 1..Len(p) |-> IF p[i] = "/" THEN "\\" ELSE p[i]]
       ELSE p

\* ------------------------------------------------------------------ state
VARIABLES
    argv,       \* the parsed command line
    system,     \* platform.system()
    fs,         \* the files: .gitignore, the env file, the compose file
    fs0,        \* the files as the run found them
    onpath,     \* the tools shutil.which resolves
    pc,         \* where the run is
    exit_code,  \* the exit status, NoExit while the run goes on
    lines,      \* r_prompt_new_env's lines
    log         \* what the run did: commands, probes, answers, writes, prints

vars == <<argv, system, fs, fs0, onpath, pc, exit_code, lines, log>>

NoExit == -1
\* subprocess.run raised FileNotFoundError: the command did not start.
NotFound == -1

File(text) == [exists |-> TRUE, text |-> text]
NoFile == [exists |-> FALSE, text |-> <<>>]

\* One symbol for a fixed word of the program.
W(word) == <<word>>

Systems == {"Linux", "Darwin", "Windows", "FreeBSD"}
Rcs == (0..MaxRc) \cup {NotFound}

\* ----------------------------------------------------------------- inputs
ComposeArgs == {<<"c">>, <<".", "/", "c">>}
EnvArgs == {<<"e">>, <<"d", "/", "/", "e">>}
GitignoreFiles ==
    {NoFile, File(<<"x", NL>>), File(<<"e", NL, "x", NL>>)}
EnvFiles == {NoFile, File(<<"A", "=", "1", NL>>)}
ConfirmAnswers ==
    {<<"y">>, <<SP, "Y", "E", "S", SP>>, <<>>, <<"n">>, <<"y", "e">>, <<"y", "y">>}
PatAnswers == {<<>>, <<SP>>, <<SP, "t">>}
ExtraAnswers ==
    {<<>>, <<"A", "=", "1">>, <<SP, "B", "=", "2">>, <<"A", "B">>}

EmptyLog ==
    [cmds |-> <<>>, probes |-> <<>>, typed |-> <<>>, writes |-> <<>>,
     out |-> <<>>, calls |-> <<>>]

Init ==
    /\ argv \in [env_file : EnvArgs, compose_file : ComposeArgs,
                 no_pull : BOOLEAN]
    /\ system \in Systems
    /\ fs \in [gitignore : GitignoreFiles, env : EnvFiles,
               compose : {NoFile, File(<<>>)}]
    /\ fs0 = fs
    /\ onpath \in {{}, {"docker"}}
    /\ pc = "main"
    /\ exit_code = NoExit
    /\ lines = <<>>
    /\ log = EmptyLog

\* ------------------------------------------------------- ignore-list update
\* r_ensure_gitignore_entry without the test that .gitignore exists: a
\* missing list is created with the entry.
r_ensure_gitignore_entry_create(f, path) ==
    LET rel == as_posix(path)
        ls == splitlines(f.gitignore.text)
    IN IF In(rel, ls) THEN <<>>
       ELSE <<[file |-> "gitignore",
               text |-> Join(<<>>, Append(ls, rel)) \o <<>>]>>

\* The writes r_ensure_gitignore_entry(path) makes on the files f.
r_ensure_gitignore_entry(f, path) ==
    IF ~f.gitignore.exists THEN <<>>
    ELSE LET rel == as_posix(path)
             ls == splitlines(f.gitignore.text)
         IN IF In(rel, ls) THEN <<>>
            ELSE <<[file |-> "gitignore",
                    text |-> Join(<<>>, Append(ls, rel)) \o <<>>]>>

\* The files after the writes ws, in order.
RECURSIVE Written(_, _)
Written(f, ws) ==
    IF ws = <<>> THEN f
    ELSE Written([f EXCEPT ![ws[1].file] = File(ws[1].text)], Tail(ws))

\* ------------------------------------------------------------ log helpers
Echo(l, msgs) == [l EXCEPT !.out = @ \o msgs]
Probe(l, tool, found) ==
    [l EXCEPT !.probes = Append(@, [tool |-> tool, found |-> found,
                                    at |-> Len(l.cmds)])]
Ran(l, cmd, rc) == [l EXCEPT !.cmds = Append(@, [argv |-> cmd, rc |-> rc])]
Typed(l, prompt, answer) ==
    [l EXCEPT !.typed = Append(@, [prompt |-> prompt, answer |-> answer])]
Wrote(l, ws) == [l EXCEPT !.writes = @ \o ws]

\* sys.exit(code)
Exit(code) == pc' = "exit" /\ exit_code' = code

\* ---------------------------------------------------------- r_run_command
\* r_run_command with check=False: a failing command raises nothing.
r_run_command_unchecked(cmd, rc) ==
    [out |-> <<W("+ ") \o Join(W(" "), cmd)>>, raised |-> FALSE, code |-> 0]

\* r_run_command exiting 1 on every failure, the command's status dropped.
r_run_command_exit1(cmd, rc) ==
    [out |-> <<W("+ ") \o Join(W(" "), cmd)>>, raised |-> rc # 0, code |-> 1]

\* What r_run_command(cmd) does when the command ends with rc: its prints,
\* whether it raises SystemExit, and with which code.
r_run_command(cmd, rc) ==
    [out |-> <<W("+ ") \o Join(W(" "), cmd)>> \o
             (IF rc = NotFound
              THEN <<W("Error: command not found: ") \o cmd[1]>>
              ELSE IF rc # 0
              THEN <<W("Error: command failed with code "), W("<rc>")>>
              ELSE <<>>),
     raised |-> rc # 0,
     code |-> IF rc = NotFound THEN 1 ELSE rc]

\* --------------------------------------------------------------- r_main
do_pull == ~argv.no_pull

\* r_main without the check of the compose file.
MainUnchecked ==
    /\ pc = "main"
    /\ pc' = "ensure_env_file"
    /\ UNCHANGED <<argv, system, fs, fs0, onpath, exit_code, lines, log>>

Main ==
    /\ pc = "main"
    /\ IF ~fs.compose.exists
       THEN /\ log' = Echo(log, <<W("Error: compose file not found: ")
                                   \o PathStr(system, argv.compose_file)>>)
            /\ Exit(1)
       ELSE /\ pc' = "ensure_env_file"
            /\ UNCHANGED <<exit_code, log>>
    /\ UNCHANGED <<argv, system, fs, fs0, onpath, lines>>

\* r_ensure_env_file, up to the first prompt.
EnsureEnvFile ==
    /\ pc = "ensure_env_file"
    /\ IF fs.env.exists
       THEN LET ws == r_ensure_gitignore_entry(fs, argv.env_file)
            IN /\ fs' = Written(fs, ws)
               /\ log' = Wrote(log, ws)
               /\ pc' = "ensure_docker"
       ELSE /\ log' = Echo(log, <<PathStr(system, argv.env_file)
                                   \o W(" does not exist.")>>)
            /\ pc' = "confirm"
            /\ UNCHANGED fs
    /\ UNCHANGED <<argv, system, fs0, onpath, exit_code, lines>>

\* A looser test of the answer: any answer that starts with "y".
AffirmativePrefix(answer) == answer # <<>> /\ answer[1] = "y"

\* answer in ("y", "yes")
Affirmative(answer) == answer \in {<<"y">>, <<"y", "e", "s">>}

\* r_prompt_new_env: the confirmation prompt.
PromptConfirm ==
    /\ pc = "confirm"
    /\ \E raw \in ConfirmAnswers :
         LET answer == lower(strip(raw))
         IN IF ~Affirmative(answer)
            THEN /\ log' = Echo(Typed(log, "confirm", raw),
                                 <<W("Aborting: env file is required.")>>)
                 /\ Exit(1)
            ELSE /\ log' = Echo(Typed(log, "confirm", raw),
                                 <<W("You can leave any value blank")>>)
                 /\ pc' = "github_pat"
                 /\ UNCHANGED exit_code
    /\ UNCHANGED <<argv, system, fs, fs0, onpath, lines>>

\* The credential line added whatever the answer.
PatLinesAlways(github_pat) ==
    <<W("GITHUB_PERSONAL_ACCESS_TOKEN") \o W("=") \o github_pat>>

\* lines after the credential answer: its line, if the answer is not empty.
PatLines(github_pat) ==
    IF github_pat # <<>>
    THEN <<W("GITHUB_PERSONAL_ACCESS_TOKEN") \o W("=") \o github_pat>>
    ELSE <<>>

\* The credential prompt with the answer echoed back.
PromptGithubPatEcho ==
    /\ pc = "github_pat"
    /\ \E raw \in PatAnswers :
         LET github_pat == strip(raw)
         IN /\ lines' = PatLines(github_pat)
            /\ log' = Echo(Typed(log, "github_pat", raw),
                            <<W("Token: ") \o github_pat,
                              W("You may add extra KEY=VALUE entries.")>>)
    /\ pc' = "extra"
    /\ UNCHANGED <<argv, system, fs, fs0, onpath, exit_code>>

\* r_prompt_new_env: the masked credential prompt.
PromptGithubPat ==
    /\ pc = "github_pat"
    /\ \E raw \in PatAnswers :
         LET github_pat == strip(raw)
         IN /\ lines' = PatLines(github_pat)
            /\ log' = Echo(Typed(log, "github_pat", raw),
                            <<W("You may add extra KEY=VALUE entries.")>>)
    /\ pc' = "extra"
    /\ UNCHANGED <<argv, system, fs, fs0, onpath, exit_code>>

\* The free-form prompts a run has answered so far.
ExtraCount(l) ==
    Cardinality({i \in 1..Len(l.typed) : l.typed[i].prompt = "extra"})

\* r_prompt_new_env: one turn of the free-form loop; on the blank line the
\* env file is written and registered in the ignore list.
PromptExtra ==
    /\ pc = "extra"
    /\ \E answer \in ExtraAnswers :
         LET raw == strip(answer)
             l1 == Typed(log, "extra", answer)
         IN /\ ExtraCount(log) >= MaxExtra => raw = <<>>
            /\ IF raw = <<>>
               THEN LET env_text == IF lines # <<>>
                                    THEN Join(<<>>, lines) \o <<>>
                                    ELSE <<>>
                        w1 == <<[file |-> "env", text |-> env_text]>>
                        f1 == Written(fs, w1)
                        w2 == r_ensure_gitignore_entry(f1, argv.env_file)
                    IN /\ fs' = Written(f1, w2)
                       /\ log' = Echo(Wrote(l1, w1 \o w2),
                              <<W("Wrote env file to: ")
                                \o PathStr(system, argv.env_file)>> \o
                              (IF lines = <<>>
                               THEN <<W("Warning: env file is currently empty.")>>
                               ELSE <<>>))
                       /\ pc' = "ensure_docker"
                       /\ UNCHANGED lines
               ELSE IF ~In("=", raw)
               THEN /\ log' = Echo(l1, <<W("Invalid format, expected KEY=VALUE. Try again.")>>)
                    /\ UNCHANGED <<fs, pc, lines>>
               ELSE /\ lines' = Append(lines, raw)
                    /\ log' = l1
                    /\ UNCHANGED <<fs, pc>>
    /\ UNCHANGED <<argv, system, fs0, onpath, exit_code>>

\* ------------------------------------------------- r_run_docker_compose
base_cmd(compose_file, env_file) ==
    <<W("docker"), W("compose"), W("--file"), PathStr(system, compose_file),
      W("--env-file"), PathStr(system, env_file)>>

\* --no-pull not read: the pull is always made.
LaunchAlwaysPull == "pull"

\* Where r_main goes once r_ensure_docker_available has returned.
Launch == IF do_pull THEN "pull" ELSE "up"

\* What an installer that ended with rc may have left on PATH.
Installed(rc) == IF rc = 0 THEN {onpath, onpath \cup {"docker"}} ELSE {onpath}

\* ------------------------------------------- r_ensure_docker_available
EnsureDockerAvailable ==
    /\ pc = "ensure_docker"
    /\ LET found == "docker" \in onpath
           l1 == Probe(log, "docker", found)
       IN IF found
          THEN pc' = Launch /\ log' = l1 /\ UNCHANGED exit_code
          ELSE IF system = "Windows"
          THEN pc' = "install_windows" /\ log' = l1 /\ UNCHANGED exit_code
          ELSE IF system = "Linux"
          THEN pc' = "install_linux" /\ log' = l1 /\ UNCHANGED exit_code
          ELSE IF system = "Darwin"
          THEN pc' = "install_macos" /\ log' = l1 /\ UNCHANGED exit_code
          ELSE /\ log' = Echo(l1, <<W("Unsupported OS for auto-install: ")
                                    \o W(system)>>)
               /\ Exit(1)
    /\ UNCHANGED <<argv, system, fs, fs0, onpath, lines>>

\* r_try_install_docker_windows: the whole function, its one command
\* included (check=False: the command's status is not read).
TryInstallDockerWindows ==
    /\ pc = "install_windows"
    /\ LET found == "docker" \in onpath
           l1 == Probe(log, "docker", found)
       IN IF found
          THEN pc' = Launch /\ log' = l1 /\ UNCHANGED <<exit_code, onpath>>
          ELSE \E choco \in BOOLEAN :
                 LET l2 == Probe(Echo(l1, <<W("Docker not found. Attempting Windows install")>>),
                                 "choco", choco)
                 IN IF ~choco
                    THEN /\ log' = Echo(l2, <<W("Chocolatey is not installed.")>>)
                         /\ Exit(1)
                         /\ UNCHANGED onpath
                    ELSE \E rc \in Rcs :
                           LET ps_cmd == <<W("powershell"), W("-Command"),
                                           W("Start-Process"), W("choco"),
                                           W("-ArgumentList"),
                                           W("'install docker-desktop -y'"),
                                           W("-Verb"), W("runAs")>>
                               l3 == Ran(Echo(l2, <<W("Requesting elevated install")>>),
                                         ps_cmd, rc)
                           IN /\ log' = IF rc = NotFound
                                        THEN Echo(l3, <<W("Traceback: FileNotFoundError")>>)
                                        ELSE Echo(l3, <<W("Please complete Docker Desktop installation")>>)
                              /\ onpath' \in Installed(rc)
                              /\ Exit(1)
    /\ UNCHANGED <<argv, system, fs, fs0, lines>>

\* r_try_install_docker_linux, up to its first command.
TryInstallDockerLinux ==
    /\ pc = "install_linux"
    /\ LET found == "docker" \in onpath
           l1 == Probe(log, "docker", found)
       IN IF found
          THEN pc' = Launch /\ log' = l1 /\ UNCHANGED exit_code
          ELSE \E apt \in BOOLEAN :
                 LET l2 == Probe(Echo(l1, <<W("Docker not found. Attempting Linux install")>>),
                                 "apt", apt)
                 IN IF ~apt
                    THEN /\ log' = Echo(l2, <<W("apt not found.")>>)
                         /\ Exit(1)
                    ELSE pc' = "apt_update" /\ log' = l2 /\ UNCHANGED exit_code
    /\ UNCHANGED <<argv, system, fs, fs0, onpath, lines>>

\* r_try_install_docker_linux: sudo apt update, a SystemExit caught and
\* turned into exit 1.
AptUpdate ==
    /\ pc = "apt_update"
    /\ \E rc \in Rcs :
         LET cmd == <<W("sudo"), W("apt"), W("update")>>
             r == r_run_command(cmd, rc)
             l1 == Echo(Ran(log, cmd, rc), r.out)
         IN IF r.raised
            THEN /\ log' = Echo(l1, <<W("Automatic install failed.")>>)
                 /\ Exit(1)
            ELSE pc' = "apt_install" /\ log' = l1 /\ UNCHANGED exit_code
    /\ UNCHANGED <<argv, system, fs, fs0, onpath, lines>>

\* r_try_install_docker_linux: sudo apt install, then the return to r_main.
AptInstall ==
    /\ pc = "apt_install"
    /\ \E rc \in Rcs :
         LET cmd == <<W("sudo"), W("apt"), W("install"), W("-y"),
                      W("docker.io"), W("docker-compose-plugin")>>
             r == r_run_command(cmd, rc)
             l1 == Echo(Ran(log, cmd, rc), r.out)
         IN /\ onpath' \in Installed(rc)
            /\ IF r.raised
               THEN /\ log' = Echo(l1, <<W("Automatic install failed.")>>)
                    /\ Exit(1)
               ELSE pc' = Launch /\ log' = l1 /\ UNCHANGED exit_code
    /\ UNCHANGED <<argv, system, fs, fs0, lines>>

\* r_try_install_docker_macos: the whole function; it never returns to
\* r_main unless docker is found.
TryInstallDockerMacos ==
    /\ pc = "install_macos"
    /\ LET found == "docker" \in onpath
           l1 == Probe(log, "docker", found)
       IN IF found
          THEN pc' = Launch /\ log' = l1 /\ UNCHANGED <<exit_code, onpath>>
          ELSE \E brew \in BOOLEAN :
                 LET l2 == Probe(Echo(l1, <<W("Docker not found. Attempting macOS install")>>),
                                 "brew", brew)
                 IN IF ~brew
                    THEN /\ log' = Echo(l2, <<W("Homebrew is not installed.")>>)
                         /\ Exit(1)
                         /\ UNCHANGED onpath
                    ELSE \E rc \in Rcs :
                           LET cmd == <<W("brew"), W("install"), W("--cask"),
                                        W("docker")>>
                               r == r_run_command(cmd, rc)
                               l3 == Echo(Ran(l2, cmd, rc), r.out)
                           IN /\ onpath' \in Installed(rc)
                              /\ IF r.raised
                                 THEN log' = l3 /\ Exit(r.code)
                                 ELSE /\ log' = Echo(l3, <<W("Docker Desktop installed.")>>)
                                      /\ Exit(1)
    /\ UNCHANGED <<argv, system, fs, fs0, lines>>

\* r_run_docker_compose: docker compose pull.
ComposePull ==
    /\ pc = "pull"
    /\ \E rc \in Rcs :
         LET cmd == base_cmd(argv.compose_file, argv.env_file) \o <<W("pull")>>
             r == r_run_command(cmd, rc)
         IN /\ log' = Echo(Ran(log, cmd, rc), r.out)
            /\ IF r.raised THEN Exit(r.code)
               ELSE pc' = "up" /\ UNCHANGED exit_code
    /\ UNCHANGED <<argv, system, fs, fs0, onpath, lines>>

\* r_run_docker_compose: docker compose up, then r_main returns.
ComposeUp ==
    /\ pc = "up"
    /\ \E rc \in Rcs :
         LET cmd == base_cmd(argv.compose_file, argv.env_file) \o <<W("up")>>
             r == r_run_command(cmd, rc)
         IN /\ log' = Echo(Ran(log, cmd, rc), r.out)
            /\ IF r.raised THEN Exit(r.code) ELSE Exit(0)
    /\ UNCHANGED <<argv, system, fs, fs0, onpath, lines>>

Next ==
    \/ Main
    \/ EnsureEnvFile
    \/ PromptConfirm
    \/ PromptGithubPat
    \/ PromptExtra
    \/ EnsureDockerAvailable
    \/ TryInstallDockerWindows
    \/ TryInstallDockerLinux
    \/ AptUpdate
    \/ AptInstall
    \/ TryInstallDockerMacos
    \/ ComposePull
    \/ ComposeUp

Spec == Init /\ [][Next]_vars

\* ------------------------------------------------ make_env.ensure_gitignore
\* The writes ensure_gitignore(out_path) makes on the files f.
ensure_gitignore(f, out_path) ==
    IF ~f.gitignore.exists THEN <<>>
    ELSE LET content == splitlines(f.gitignore.text)
             rel == PathStr(system, out_path)
         IN IF ~In(rel, content)
            THEN <<[file |-> "gitignore",
                    text |-> Join(<<>>, Append(content, rel)) \o <<>>]>>
            ELSE <<>>

\* --------------------------------- the ignore-list functions, called alone
\* Texts of at most MaxText characters over the alphabet A.
MaxText == 3
Texts(A, n) == UNION {[1..k -> A] : k \in 0..n}

IgnorePaths == {<<"e">>, <<".", "/", "e">>, <<"d", "/", "e">>}
IgnoreTexts == Texts({"e", "x", NL}, MaxText)

NoArgv == [env_file |-> <<>>, compose_file |-> <<>>, no_pull |-> FALSE]

InitIgnore ==
    /\ argv = NoArgv
    /\ system \in {"Linux", "Windows"}
    /\ fs \in [gitignore : {NoFile} \cup {File(t) : t \in IgnoreTexts},
               env : {NoFile}, compose : {NoFile}]
    /\ fs0 = fs
    /\ onpath = {}
    /\ pc = "call"
    /\ exit_code = NoExit
    /\ lines = <<>>
    /\ log = EmptyLog

Called(l, fn, path, before, after) ==
    [l EXCEPT !.calls = Append(@, [fn |-> fn, path |-> path,
                                   before |-> before, after |-> after])]

CallEnsureGitignoreEntry ==
    /\ pc = "call"
    /\ Len(log.calls) < MaxCalls
    /\ \E path \in IgnorePaths :
         LET ws == r_ensure_gitignore_entry(fs, path)
         IN /\ fs' = Written(fs, ws)
            /\ log' = Called(Wrote(log, ws), "r_ensure_gitignore_entry", path,
                             fs.gitignore, Written(fs, ws).gitignore)
    /\ UNCHANGED <<argv, system, fs0, onpath, pc, exit_code, lines>>

CallEnsureGitignore ==
    /\ pc = "call"
    /\ Len(log.calls) < MaxCalls
    /\ \E path \in IgnorePaths :
         LET ws == ensure_gitignore(fs, path)
         IN /\ fs' = Written(fs, ws)
            /\ log' = Called(Wrote(log, ws), "ensure_gitignore", path,
                             fs.gitignore, Written(fs, ws).gitignore)
    /\ UNCHANGED <<argv, system, fs0, onpath, pc, exit_code, lines>>

NextIgnore ==
    \/ CallEnsureGitignoreEntry
    \/ CallEnsureGitignore

SpecIgnore == InitIgnore /\ [][NextIgnore]_vars

\* =========================================================== install_just.py
\* tool-doctor: check-just and install-just [--auto].
JustTools == {"just", "apt", "curl", "brew", "scoop", "choco", "sudo", "bash"}

\* _platform_name(): platform.system(), lower-cased and matched.
platform_name(sys) ==
    CASE sys = "Linux" -> "linux"
      [] sys = "Darwin" -> "macos"
      [] sys = "Windows" -> "windows"
      [] OTHER -> "unknown"

\* _print_manual_instructions()
ManualInstructions ==
    <<W(""),
      W("Manual installation instructions for just:"), W(""),
      W("Linux (Debian/Ubuntu):"),
      W("  sudo apt install just"),
      W("or (any Linux):"),
      W("  curl -s https://just.systems/install.sh | bash"),
      W(""),
      W("macOS (Homebrew):"),
      W("  brew install just"),
      W(""),
      W("Windows (Scoop):"),
      W("  scoop install just"),
      W("Windows (Chocolatey):"),
      W("  choco install just"),
      W(""),
      W("Rust (any OS, with cargo):"),
      W("  cargo install just"),
      W(""),
      W("Releases (manual binary):"),
      W("  https://github.com/casey/just/releases"),
      W("")>>

JustArgvs ==
    {[command |-> "check-just", auto |-> FALSE],
     [command |-> "install-just", auto |-> FALSE],
     [command |-> "install-just", auto |-> TRUE]}

InitJust ==
    /\ argv \in JustArgvs
    /\ system \in Systems
    /\ fs = [gitignore |-> NoFile, env |-> NoFile, compose |-> NoFile]
    /\ fs0 = fs
    /\ onpath \in SUBSET JustTools
    /\ pc = argv.command
    /\ exit_code = NoExit
    /\ lines = <<>>
    /\ log = EmptyLog

\* subprocess.run(command) starts the command if its program is on PATH and
\* raises FileNotFoundError otherwise; _run_command does not catch it.
Starts(command, path) == command[1][1] \in path

\* The uncaught FileNotFoundError: a traceback and exit status 1.
Crash(command) ==
    /\ log' = Echo(Ran(log, command, NotFound),
                   <<W("Traceback: FileNotFoundError")>>)
    /\ Exit(1)
    /\ UNCHANGED onpath

\* What an installer of just that ended with rc may have left on PATH.
JustInstalled(rc) == IF rc = 0 THEN {onpath, onpath \cup {"just"}} ELSE {onpath}

\* check-just's status whatever just --version returned... as the status
\* of just --version itself.
check_just_code_version(version_code) == version_code

\* raise typer.Exit(code=0), after the version probe.
check_just_code(version_code) == 0

\* check_just, the whole command; just was found on PATH by the probe, so
\* the version probe starts.
CheckJust ==
    /\ pc = "check-just"
    /\ LET found == "just" \in onpath
           l1 == Probe(log, "just", found)
       IN IF found
          THEN LET cmd == <<W("just"), W("--version")>>
                   l2 == Echo(l1, <<W("just is installed and available on PATH.")>>)
               IN \E version_code \in 0..MaxRc :
                    /\ log' = IF version_code # 0
                              THEN Echo(Ran(l2, cmd, version_code),
                                        <<W("Unable to run just --version (non-zero exit code).")>>)
                              ELSE Ran(l2, cmd, version_code)
                    /\ Exit(check_just_code(version_code))
          ELSE /\ log' = Echo(Echo(l1, <<W("just is NOT installed or not on PATH.")>>),
                              ManualInstructions)
               /\ Exit(1)
    /\ UNCHANGED <<argv, system, fs, fs0, onpath, lines>>

\* --auto taken as given whatever the command line.
AutoAlways == TRUE

\* the auto option of install-just
Auto == argv.auto

\* install_just, up to the call of _attempt_auto_install.
InstallJust ==
    /\ pc = "install-just"
    /\ LET found == "just" \in onpath
           l1 == Probe(log, "just", found)
       IN IF found
          THEN /\ log' = Echo(l1, <<W("just is already installed and available on PATH.")>>)
               /\ Exit(0)
          ELSE IF ~Auto
          THEN /\ log' = Echo(Echo(l1, <<W("just is not installed."), W(""),
                                         W("No changes were made because --auto was not provided.")>>),
                              ManualInstructions)
               /\ Exit(1)
          ELSE /\ log' = Echo(l1, <<W("just is not installed."),
                                    W("Attempting automatic installation of just...")>>)
               /\ pc' = "attempt_auto_install"
               /\ UNCHANGED exit_code
    /\ UNCHANGED <<argv, system, fs, fs0, onpath, lines>>

\* install_just once _attempt_auto_install has returned success, with path
\* on PATH: the re-probe (made only after a success), the message, the
\* status.
install_just_tail(l, success, path) ==
    LET l0 == [l EXCEPT !.calls = Append(@, [fn |-> "_attempt_auto_install",
                                             success |-> success])]
        l1 == IF success THEN Probe(l0, "just", "just" \in path) ELSE l0
    IN IF success /\ "just" \in path
       THEN [log |-> Echo(l1, <<W("Automatic installation of just appears to have succeeded.")>>),
             code |-> 0]
       ELSE [log |-> Echo(Echo(l1, <<W("Automatic installation failed or just is still not available on PATH.")>>),
                          ManualInstructions),
             code |-> 1]

\* Windows: choco looked for first.
auto_install_windows_choco_first(path) ==
    IF "choco" \in path THEN "just_choco"
    ELSE IF "scoop" \in path THEN "just_scoop"
    ELSE "none"

\* _auto_install_windows: the package manager it runs.
auto_install_windows(path) ==
    IF "scoop" \in path THEN "just_scoop"
    ELSE IF "choco" \in path THEN "just_choco"
    ELSE "none"

\* _auto_install_linux: the strategy it runs.
auto_install_linux(path) ==
    IF "apt" \in path THEN "just_apt_update"
    ELSE IF "curl" \in path THEN "just_curl"
    ELSE "none"

\* _auto_install_macos: the strategy it runs.
auto_install_macos(path) ==
    IF "brew" \in path THEN "just_brew" ELSE "none"

\* The shutil.which probes a strategy choice makes: each tool in turn, up to
\* the first one found.
RECURSIVE Probes(_, _, _)
Probes(l, tools, path) ==
    IF tools = <<>> THEN l
    ELSE IF tools[1] \in path THEN Probe(l, tools[1], TRUE)
    ELSE Probes(Probe(l, tools[1], FALSE), Tail(tools), path)

\* _attempt_auto_install, up to the first command of the strategy; with no
\* strategy it returns False and install_just ends.
AttemptAutoInstall ==
    /\ pc = "attempt_auto_install"
    /\ LET sys == platform_name(system)
           strategy == CASE sys = "linux" -> auto_install_linux(onpath)
                         [] sys = "macos" -> auto_install_macos(onpath)
                         [] sys = "windows" -> auto_install_windows(onpath)
                         [] OTHER -> "none"
           tools == CASE sys = "linux" -> <<"apt", "curl">>
                      [] sys = "macos" -> <<"brew">>
                      [] sys = "windows" -> <<"scoop", "choco">>
                      [] OTHER -> <<>>
           l1 == Probes(log, tools, onpath)
       IN IF strategy = "none"
          THEN LET t == install_just_tail(l1, FALSE, onpath)
               IN log' = t.log /\ Exit(t.code)
          ELSE log' = l1 /\ pc' = strategy /\ UNCHANGED exit_code
    /\ UNCHANGED <<argv, system, fs, fs0, onpath, lines>>

\* The last command of a strategy, then the rest of install_just.
RunLast(cmd) ==
    IF ~Starts(cmd, onpath) THEN Crash(cmd)
    ELSE \E rc \in 0..MaxRc :
           \E path \in JustInstalled(rc) :
              LET t == install_just_tail(Ran(log, cmd, rc), rc = 0, path)
              IN log' = t.log /\ onpath' = path /\ Exit(t.code)

\* The install step run whatever the update step returned.
apt_chain_always(update_rc) == TRUE

\* _auto_install_linux: `update == 0 and install ...`: the install step is
\* run only after an update that returned 0.
apt_chain(update_rc) == update_rc = 0

\* _auto_install_linux: sudo apt update.
JustAptUpdate ==
    /\ pc = "just_apt_update"
    /\ LET cmd == <<W("sudo"), W("apt"), W("update")>>
       IN IF ~Starts(cmd, onpath) THEN Crash(cmd)
          ELSE \E rc \in 0..MaxRc :
                 IF apt_chain(rc)
                 THEN /\ log' = Ran(log, cmd, rc)
                      /\ pc' = "just_apt_install"
                      /\ UNCHANGED <<exit_code, onpath>>
                 ELSE LET t == install_just_tail(Ran(log, cmd, rc), FALSE, onpath)
                      IN log' = t.log /\ Exit(t.code) /\ UNCHANGED onpath
    /\ UNCHANGED <<argv, system, fs, fs0, lines>>

\* _auto_install_linux: sudo apt install -y just, then the rest of
\* install_just.
JustAptInstall ==
    /\ pc = "just_apt_install"
    /\ LET cmd == <<W("sudo"), W("apt"), W("install"), W("-y"), W("just")>>
           update_rc == log.cmds[Len(log.cmds)].rc
       IN IF ~Starts(cmd, onpath) THEN Crash(cmd)
          ELSE \E rc \in 0..MaxRc :
                 \E path \in JustInstalled(rc) :
                    LET t == install_just_tail(Ran(log, cmd, rc),
                                               update_rc = 0 /\ rc = 0, path)
                    IN log' = t.log /\ onpath' = path /\ Exit(t.code)
    /\ UNCHANGED <<argv, system, fs, fs0, lines>>

\* _auto_install_linux: the install script through curl and bash.
JustCurl ==
    /\ pc = "just_curl"
    /\ RunLast(<<W("bash"), W("-c"),
                 W("curl -s https://just.systems/install.sh | bash")>>)
    /\ UNCHANGED <<argv, system, fs, fs0, lines>>

\* _auto_install_macos: brew install just.
JustBrew ==
    /\ pc = "just_brew"
    /\ RunLast(<<W("brew"), W("install"), W("just")>>)
    /\ UNCHANGED <<argv, system, fs, fs0, lines>>

\* _auto_install_windows: scoop install just.
JustScoop ==
    /\ pc = "just_scoop"
    /\ RunLast(<<W("scoop"), W("install"), W("just")>>)
    /\ UNCHANGED <<argv, system, fs, fs0, lines>>

\* _auto_install_windows: choco install just -y.
JustChoco ==
    /\ pc = "just_choco"
    /\ RunLast(<<W("choco"), W("install"), W("just"), W("-y")>>)
    /\ UNCHANGED <<argv, system, fs, fs0, lines>>

NextJust ==
    \/ CheckJust
    \/ InstallJust
    \/ AttemptAutoInstall
    \/ JustAptUpdate
    \/ JustAptInstall
    \/ JustCurl
    \/ JustBrew
    \/ JustScoop
    \/ JustChoco

SpecJust == InitJust /\ [][NextJust]_vars

\* ================================================================ make_env.py
\* env-writer: [--github-pat TOKEN] [--out PATH] KEY=VALUE ...
\* A run has at most MaxPairs positional arguments.
MaxPairs == 2

PairArgs ==
    {<<"A", "=", "1">>, <<"B", "=", "2", "=", "3">>, <<"B">>, <<"=">>}
PairLists == UNION {[1..k -> PairArgs] : k \in 0..MaxPairs}
\* --github-pat: not given, or the token.
GithubPatArgs == {<<>>, <<"t">>}
OutArgs == {<<"e">>, <<"d", "/", "e">>}

InitWriter ==
    /\ argv \in [pairs : PairLists, github_pat : GithubPatArgs, out : OutArgs]
    /\ system \in {"Linux", "Windows"}
    /\ fs \in [gitignore : GitignoreFiles, env : EnvFiles, compose : {NoFile}]
    /\ fs0 = fs
    /\ onpath = {}
    /\ pc \in {"make_env", "parse_kv"}
    /\ exit_code = NoExit
    /\ lines = <<>>
    /\ log = EmptyLog

\* parse_kv without the test for "=": a pair without one is taken as a key
\* with an empty value.
RECURSIVE parse_kv_lenient(_)
parse_kv_lenient(pairs) ==
    IF pairs = <<>> THEN [raised |-> FALSE, result |-> <<>>, pair |-> <<>>]
    ELSE LET kv == IF In("=", pairs[1]) THEN SplitFirst(pairs[1])
                   ELSE <<pairs[1], <<>>>>
             rest == parse_kv_lenient(Tail(pairs))
         IN [rest EXCEPT !.result = <<kv>> \o @]

\* parse_kv(pairs): the (key, value) list, or the ValueError raised at the
\* first pair without "=".
RECURSIVE parse_kv(_)
parse_kv(pairs) ==
    IF pairs = <<>> THEN [raised |-> FALSE, result |-> <<>>, pair |-> <<>>]
    ELSE IF ~In("=", pairs[1])
    THEN [raised |-> TRUE, result |-> <<>>, pair |-> pairs[1]]
    ELSE LET kv == SplitFirst(pairs[1])
             rest == parse_kv(Tail(pairs))
         IN IF rest.raised THEN rest
            ELSE [rest EXCEPT !.result = <<kv>> \o @]

\* An uncaught exception: the traceback with its last line, exit status 1.
Uncaught(msg, ws) ==
    [writes |-> ws,
     out |-> <<W("Traceback (most recent call last):"), msg>>,
     code |-> 1]

\* Line 21: the action that parser.add_argument returns is called, with the
\* keyword description; argparse actions are not callable that way and the
\* call raises TypeError.
add_argument_raises == TRUE

\* main(): what it writes, what it prints and its exit status, for the
\* command line args with the files f.
main(args, f) ==
    IF add_argument_raises
    THEN Uncaught(W("TypeError: _StoreAction.__call__() got an unexpected keyword argument 'description'"), <<>>)
    ELSE IF args.pairs = <<>>
    THEN \* nargs="+"
         [writes |-> <<>>,
          out |-> <<W("usage: make_env.py [-h] [--github-pat GITHUB_PAT] [--out OUT] pairs [pairs ...]"),
                    W("make_env.py: error: the following arguments are required: pairs")>>,
          code |-> 2]
    ELSE LET r == parse_kv(args.pairs)
         IN IF r.raised
            THEN Uncaught(W("ValueError: Invalid pair: ") \o r.pair, <<>>)
            ELSE IF args.github_pat # <<>>
            THEN \* line 28: the None that kvs.append returns is called
                 Uncaught(W("TypeError: 'NoneType' object is not callable"), <<>>)
            ELSE LET kvs == r.result
                     ls == [i \in 1..Len(kvs) |->
                               kvs[i][1] \o <<"=">> \o kvs[i][2]]
                     w1 == <<[file |-> "env", text |-> Join(<<>>, ls) \o <<>>]>>
                     w2 == ensure_gitignore(Written(f, w1), args.out)
                 IN \* line 33: the None that ensure_gitignore returns is
                    \* called
                    Uncaught(W("TypeError: 'NoneType' object is not callable"),
                             w1 \o w2)

\* A run of make_env.py: main(), the whole of it.
MakeEnvMain ==
    /\ pc = "make_env"
    /\ LET r == main(argv, fs)
       IN /\ fs' = Written(fs, r.writes)
          /\ log' = Echo(Wrote(log, r.writes), r.out)
          /\ Exit(r.code)
    /\ UNCHANGED <<argv, system, fs0, onpath, lines>>

\* parse_kv called alone with the positional arguments.
CallParseKv ==
    /\ pc = "parse_kv"
    /\ LET r == parse_kv(argv.pairs)
       IN log' = [log EXCEPT !.calls = Append(@, [fn |-> "parse_kv",
                                                   pairs |-> argv.pairs,
                                                   raised |-> r.raised,
                                                   result |-> r.result])]
    /\ pc' = "returned"
    /\ UNCHANGED <<argv, system, fs, fs0, onpath, exit_code, lines>>

NextWriter ==
    \/ MakeEnvMain
    \/ CallParseKv

SpecWriter == InitWriter /\ [][NextWriter]_vars

\* ============================================================ the three tools
\* A run of any of the three programs.
InitAll == Init \/ InitWriter \/ InitJust
NextAll == Next \/ NextWriter \/ NextJust
SpecAll == InitAll /\ [][NextAll]_vars

\* ================================================================= claims
\* What the claims read off a run.
Argvs == [i \in 1..Len(log.cmds) |-> log.cmds[i].argv]
IsPrefix(a, b) == Len(a) <= Len(b) /\ SubSeq(b, 1, Len(a)) = a
LastWord(cmd) == cmd[Len(cmd)]
IsCompose(cmd) == cmd[1] = W("docker") /\ cmd[2] = W("compose")
Exited == pc = "exit"
\* The commands of the run that exited non-zero, by position.
Failing == {i \in 1..Len(log.cmds) : log.cmds[i].rc >= 1}
FirstFailing == CHOOSE i \in Failing : \A j \in Failing : i <= j

\* ---- C1
\* The compose command with the two paths of the command line, each as
\* pathlib renders it.
C1_Compose(sub) ==
    <<W("docker"), W("compose"), W("--file"),
      PathStr(system, argv.compose_file), W("--env-file"),
      PathStr(system, argv.env_file), W(sub)>>
C1_Expected ==
    IF argv.no_pull THEN <<C1_Compose("up")>>
    ELSE <<C1_Compose("pull"), C1_Compose("up")>>
C1_Pre ==
    /\ fs0.compose.exists
    /\ fs0.env.exists
    /\ Len(log.probes) >= 1
    /\ log.probes[1].tool = "docker"
    /\ log.probes[1].found

C2_UpOnlyAfterPull ==
    do_pull =>
        \A i \in 1..Len(log.cmds) :
            /\ (IsCompose(log.cmds[i].argv) /\ LastWord(log.cmds[i].argv) = W("up")) =>
                   /\ i > 1
                   /\ IsCompose(log.cmds[i - 1].argv)
                   /\ LastWord(log.cmds[i - 1].argv) = W("pull")
                   /\ log.cmds[i - 1].rc = 0
            /\ (LastWord(log.cmds[i].argv) = W("pull") /\ log.cmds[i].rc # 0) =>
                   /\ i = Len(log.cmds)
                   /\ Exited

C2_Witness ==
    /\ do_pull
    /\ Exited
    /\ log.cmds # <<>>
    /\ LastWord(log.cmds[Len(log.cmds)].argv) = W("pull")
    /\ log.cmds[Len(log.cmds)].rc = 2

\* ---- C3
\* C3: a run that finds no compose file ends with status 1 at once: no file
\* is written, no prompt is made, no tool is probed, no command is run.
C3_MissingComposeFailsFast ==
    (~fs0.compose.exists /\ pc # "main") =>
        /\ Exited
        /\ exit_code = 1
        /\ fs = fs0
        /\ log.writes = <<>>
        /\ log.typed = <<>>
        /\ log.probes = <<>>
        /\ log.cmds = <<>>

C3_Witness ==
    /\ ~fs0.compose.exists
    /\ ~fs0.env.exists
    /\ fs0.gitignore.exists
    /\ onpath = {}
    /\ Exited

\* ---- C4
\* C4 as stated: the run's exit status is the status of the first command
\* that exited non-zero.
C4_ExitMirrorsFirstFailure ==
    (Exited /\ Failing # {}) => exit_code = log.cmds[FirstFailing].rc

\* C4, amended: the status of a failing docker compose pull, docker compose
\* up or brew install is the run's exit status; a failing apt step, and the
\* Windows choco step whatever its status, end the run with status 1; a run
\* whose commands all exit 0 and whose launch completes ends with status 0.
C4_ExitStatus ==
    Exited =>
        /\ Failing # {} =>
              LET c == log.cmds[FirstFailing]
              IN IF c.argv[1] \in {W("docker"), W("brew")}
                 THEN exit_code = c.rc
                 ELSE exit_code = 1
        /\ \A i \in 1..Len(log.cmds) :
              log.cmds[i].argv[1] = W("powershell") => exit_code = 1
        /\ (/\ log.cmds # <<>>
            /\ \A i \in 1..Len(log.cmds) : log.cmds[i].rc = 0
            /\ Argvs[Len(Argvs)] = C1_Compose("up")) => exit_code = 0

C4_Witness ==
    /\ Exited
    /\ log.cmds # <<>>
    /\ log.cmds[Len(log.cmds)].argv = C1_Compose("up")
    /\ log.cmds[Len(log.cmds)].rc = 2
    /\ exit_code = 2

\* ---- C5
\* The commands run before the first docker compose command: the
\* remediation commands.
FirstCompose ==
    CHOOSE i \in 1..Len(log.cmds) :
        /\ IsCompose(log.cmds[i].argv)
        /\ \A j \in 1..(i - 1) : ~IsCompose(log.cmds[j].argv)

\* C5: a docker compose command is run only when a probe made after the
\* last remediation command found docker, every remediation command having
\* exited 0; a run that did not get there ends with a non-zero status.
C5_LaunchOnlyAfterConfirmingProbe ==
    /\ (\E i \in 1..Len(log.cmds) : IsCompose(log.cmds[i].argv)) =>
           /\ \A j \in 1..(FirstCompose - 1) : log.cmds[j].rc = 0
           /\ \E k \in 1..Len(log.probes) :
                  /\ log.probes[k].tool = "docker"
                  /\ log.probes[k].found
                  /\ log.probes[k].at = FirstCompose - 1
    /\ (Exited /\ \A i \in 1..Len(log.cmds) : ~IsCompose(log.cmds[i].argv)) =>
           exit_code # 0

\* ---- C6
\* The answers of ConfirmAnswers that are "y" or "yes" once trimmed and
\* lower-cased.
C6_AffirmativeAnswers == {<<"y">>, <<SP, "Y", "E", "S", SP>>}

\* C6: with no env file, any other answer to the confirmation prompt ends
\* the run with a non-zero status, and that run writes no file, makes no
\* further prompt, probes no tool and runs no command.
C6_DeclineAborts ==
    (/\ ~fs0.env.exists
     /\ log.typed # <<>>
     /\ log.typed[1].answer \notin C6_AffirmativeAnswers) =>
        /\ Exited
        /\ exit_code # 0
        /\ exit_code # NoExit
        /\ fs = fs0
        /\ log.writes = <<>>
        /\ Len(log.typed) = 1
        /\ log.probes = <<>>
        /\ log.cmds = <<>>

C6_Witness ==
    /\ ~fs0.env.exists
    /\ fs0.gitignore.exists
    /\ log.typed # <<>>
    /\ log.typed[1].prompt = "confirm"
    /\ log.typed[1].answer = <<"y", "e">>
    /\ Exited

\* ---- C7
\* The answers typed at the free-form prompt, in order.
RECURSIVE ExtrasOf(_)
ExtrasOf(typed) ==
    IF typed = <<>> THEN <<>>
    ELSE IF typed[1].prompt = "extra"
         THEN <<typed[1].answer>> \o ExtrasOf(Tail(typed))
         ELSE ExtrasOf(Tail(typed))
C7_Blank(s) == \A i \in 1..Len(s) : s[i] = SP
\* The typed lines that hold "=", trimmed, in the order typed.
RECURSIVE C7_Kept(_)
C7_Kept(answers) ==
    IF answers = <<>> THEN <<>>
    ELSE IF \E i \in 1..Len(answers[1]) : answers[1][i] = "="
         THEN <<strip(answers[1])>> \o C7_Kept(Tail(answers))
         ELSE C7_Kept(Tail(answers))
C7_Expected ==
    (IF C7_Blank(log.typed[2].answer) THEN <<>>
     ELSE <<W("GITHUB_PERSONAL_ACCESS_TOKEN") \o W("=")
            \o strip(log.typed[2].answer)>>)
    \o C7_Kept(ExtrasOf(log.typed))

\* C7: once the credential is answered, the collected entries are the
\* credential entry, first, if and only if the answer is not blank (never
\* with an empty value), then the typed lines that hold "=", trimmed, in
\* the order typed; a line without "=" adds nothing and does not end the
\* collection, which ends at the first blank line and only there.
C7_CollectedEntries ==
    Len(log.typed) >= 2 =>
        LET extras == ExtrasOf(log.typed)
        IN /\ lines = C7_Expected
           /\ \A i \in 1..Len(lines) :
                  lines[i] # W("GITHUB_PERSONAL_ACCESS_TOKEN") \o W("=")
           /\ \A i \in 1..(Len(extras) - 1) : ~C7_Blank(extras[i])
           /\ pc = "extra" <=> (extras = <<>> \/ ~C7_Blank(extras[Len(extras)]))

C7_Witness ==
    /\ Len(log.typed) = 5
    /\ pc # "extra"
    /\ C7_Blank(log.typed[2].answer)
    /\ log.typed[3].answer = <<"A", "B">>
    /\ log.typed[4].answer = <<SP, "B", "=", "2">>
    /\ log.typed[5].answer = <<>>
    /\ lines = <<(<<"B", "=", "2">>)>>

\* ---- C8
\* Each entry as a line of its own, newline-terminated.
RECURSIVE C8_Serialized(_)
C8_Serialized(ls) ==
    IF ls = <<>> THEN <<>> ELSE ls[1] \o <<NL>> \o C8_Serialized(Tail(ls))
\* The (key, value) pairs of a list of KEY=VALUE lines.
C8_Pairs(ls) == [i \in 1..Len(ls) |-> SplitFirst(ls[i])]

\* C8: an env file written from a non-empty list of entries holds one
\* newline-terminated KEY=VALUE line per entry, and its lines, each split at
\* its first "=", are the entries again, in order.
C8_RoundTrip ==
    \A i \in 1..Len(log.writes) :
        (log.writes[i].file = "env" /\ lines # <<>>) =>
            /\ log.writes[i].text = C8_Serialized(lines)
            /\ C8_Pairs(splitlines(log.writes[i].text)) = C8_Pairs(lines)

\* ---- C9
\* C9: a second call of the ignore-list function with the same path, on an
\* ignore list that exists, leaves the file as the first call left it.
C9_Idempotent ==
    \A i \in 1..(Len(log.calls) - 1) :
        (/\ log.calls[i].before.exists
         /\ log.calls[i + 1].fn = log.calls[i].fn
         /\ log.calls[i + 1].path = log.calls[i].path) =>
            log.calls[i + 1].after = log.calls[i].after

\* ---- C10
\* The entry as the called function spells it.
C10_Entry(call) ==
    IF call.fn = "ensure_gitignore" THEN PathStr(system, call.path)
    ELSE as_posix(call.path)

\* C10: after a call on an ignore list that exists, the lines of the list
\* are its lines before the call, in order, then the entry if it was not one
\* of them, and the text then ends with a newline.
C10_LinesKept ==
    \A i \in 1..Len(log.calls) :
        log.calls[i].before.exists =>
            LET old == splitlines(log.calls[i].before.text)
                new == log.calls[i].after.text
                rel == C10_Entry(log.calls[i])
            IN /\ log.calls[i].after.exists
               /\ splitlines(new) =
                      old \o (IF In(rel, old) THEN <<>> ELSE <<rel>>)
               /\ ~In(rel, old) => new[Len(new)] = NL

\* ---- C11
\* C11: a call of the ignore-list function when no ignore list exists
\* returns normally and changes no file: no ignore list is created.
C11_AbsentListUntouched ==
    (~fs0.gitignore.exists /\ log.calls # <<>>) =>
        /\ fs = fs0
        /\ log.writes = <<>>
        /\ \A i \in 1..Len(log.calls) : ~log.calls[i].after.exists
        /\ pc = "call"
        /\ exit_code = NoExit

C11_Witness ==
    /\ ~fs0.gitignore.exists
    /\ Len(log.calls) = 2
    /\ log.calls[1].fn = "r_ensure_gitignore_entry"
    /\ log.calls[2].fn = "ensure_gitignore"

\* ---- C12
\* The writes of the run to the env file.
EnvWrites == {i \in 1..Len(log.writes) : log.writes[i].file = "env"}

\* C12: when the env file exists at the start, the run leaves it as it is,
\* makes no prompt, and once past the config check (at the runtime check or
\* later) the env path is a line of the ignore list, if there is one; the
\* env file is written at most once in a run, and only if it did not exist
\* at the start.
C12_ExistingEnvKept ==
    /\ Cardinality(EnvWrites) <= 1
    /\ fs0.env.exists =>
           /\ EnvWrites = {}
           /\ fs.env = fs0.env
           /\ log.typed = <<>>
           /\ pc \notin {"confirm", "github_pat", "extra"}
           /\ (fs0.compose.exists /\ pc \notin {"main", "ensure_env_file"}) =>
                  /\ log.probes # <<>> \/ pc = "ensure_docker"
                  /\ fs.gitignore.exists =>
                         In(as_posix(argv.env_file),
                            splitlines(fs.gitignore.text))

\* ---- tool-doctor
\* msgs were printed, in a row.
Printed(msgs) ==
    \E i \in 0..(Len(log.out) - Len(msgs)) :
        SubSeq(log.out, i + 1, i + Len(msgs)) = msgs

\* The run is one of tool-doctor's command.
IsJustRun(command) == "command" \in DOMAIN argv /\ argv.command = command

\* ---- C13
\* C13: install-just without --auto runs no command at all, whether or not
\* just is on PATH, and leaves PATH as it was; it ends at its first step,
\* and when just is absent it ends with the manual instructions printed
\* and exit status 1.
C13_NoAutoNoInstall ==
    (IsJustRun("install-just") /\ ~argv.auto) =>
        /\ log.cmds = <<>>
        /\ log.calls = <<>>
        /\ pc \in {"install-just", "exit"}
        /\ (pc = "exit" /\ "just" \notin onpath) =>
               /\ exit_code = 1
               /\ Printed(ManualInstructions)

C13_Witness ==
    /\ IsJustRun("install-just")
    /\ ~argv.auto
    /\ "just" \notin onpath
    /\ onpath \cap {"apt", "brew", "scoop"} # {}
    /\ pc = "exit"
    /\ exit_code = 1

\* ---- C14
\* The run's automatic installation ran commands, each of them to status 0,
\* and the probe made after them found just.
CleanInstallConfirmed ==
    /\ log.cmds # <<>>
    /\ \A i \in 1..Len(log.cmds) : log.cmds[i].rc = 0
    /\ \E i \in 1..Len(log.probes) :
         /\ log.probes[i].tool = "just"
         /\ log.probes[i].found
         /\ log.probes[i].at = Len(log.cmds)

\* C14: a finished install-just run has status 0 or 1; 0 exactly when the
\* first probe found just, or --auto was given, every command of the
\* strategy returned 0 and the probe after them found just; a run with
\* status 1 has printed the manual instructions.
C14_InstallJustStatus ==
    (IsJustRun("install-just") /\ pc = "exit") =>
        /\ exit_code \in {0, 1}
        /\ exit_code = 0 <=>
               \/ log.probes[1].found
               \/ argv.auto /\ CleanInstallConfirmed
        /\ exit_code = 1 => Printed(ManualInstructions)

\* ---- C15
\* C15: a finished check-just run has status 0 if just is on PATH, whatever
\* the version probe returned (a non-zero return prints the warning), and
\* otherwise status 1 with the manual instructions printed; the only
\* command a check-just run makes is the version probe, at most once, and
\* PATH is left as it was.
C15_CheckJustStatus ==
    IsJustRun("check-just") =>
        /\ Len(log.cmds) <= 1
        /\ \A i \in 1..Len(log.cmds) :
             log.cmds[i].argv = <<W("just"), W("--version")>>
        /\ log.calls = <<>>
        /\ pc \in {"check-just", "exit"}
        /\ pc = "exit" =>
             IF "just" \in onpath
             THEN /\ exit_code = 0
                  /\ Len(log.cmds) = 1
                  /\ log.cmds[1].rc # 0 =>
                       Printed(<<W("Unable to run just --version (non-zero exit code).")>>)
                  /\ ~Printed(ManualInstructions)
             ELSE /\ exit_code = 1
                  /\ log.cmds = <<>>
                  /\ Printed(ManualInstructions)

C15_Witness ==
    /\ IsJustRun("check-just")
    /\ pc = "exit"
    /\ "just" \in onpath
    /\ Len(log.cmds) = 1
    /\ log.cmds[1].rc # 0
    /\ exit_code = 0

\* ---- C19
\* A finished automatic installation on the windows platform.
WindowsAttemptDone ==
    /\ IsJustRun("install-just")
    /\ platform_name(system) = "windows"
    /\ pc = "exit"
    /\ log.calls # <<>>

\* The commands of the run that start with the program tool.
CmdsOf(tool) == {i \in 1..Len(log.cmds) : log.cmds[i].argv[1] = W(tool)}
Succeeded(tool) == \E i \in CmdsOf(tool) : log.cmds[i].rc = 0

\* C19 as stated: choco is attempted exactly when scoop did not succeed
\* (absent, or its install returned non-zero) and choco is available; the
\* result is true exactly when one of the two attempts succeeded.
C19_ChocoAfterFailedScoop ==
    WindowsAttemptDone =>
        /\ CmdsOf("scoop") # {} <=> "scoop" \in onpath
        /\ CmdsOf("choco") # {} <=>
               (~Succeeded("scoop") /\ "choco" \in onpath)
        /\ log.calls[1].success <=> (Succeeded("scoop") \/ Succeeded("choco"))

\* C19, amended: one package manager is attempted, scoop if it is
\* available and otherwise choco if it is available; choco is not
\* attempted when scoop is available, whatever scoop's install returned;
\* the result is true exactly when the attempted install returned 0.
C19_FirstAvailableOnly ==
    WindowsAttemptDone =>
        /\ Len(log.cmds) <= 1
        /\ CmdsOf("scoop") # {} <=> "scoop" \in onpath
        /\ CmdsOf("choco") # {} <=>
               ("scoop" \notin onpath /\ "choco" \in onpath)
        /\ log.calls[1].success <=> (log.cmds # <<>> /\ log.cmds[1].rc = 0)

C19_Witness ==
    /\ WindowsAttemptDone
    /\ {"scoop", "choco"} \subseteq onpath
    /\ CmdsOf("scoop") # {}
    /\ ~Succeeded("scoop")
    /\ CmdsOf("choco") = {}
    /\ ~log.calls[1].success

\* ---- env-writer
\* The run is one of env-writer, or the call of parse_kv alone.
IsWriter == "pairs" \in DOMAIN argv
\* Some pair of the list has no "=".
Malformed(pairs) == \E i \in 1..Len(pairs) : ~In("=", pairs[i])

\* ---- C16
\* C16: with a pair without "=" among the arguments, parse_kv raises and
\* returns no list, and the run writes nothing: the output file and the
\* ignore list are as they were found, and the run ends with an error,
\* whatever the other pairs are.
C16_MalformedPairAborts ==
    (IsWriter /\ Malformed(argv.pairs)) =>
        /\ \A i \in 1..Len(log.calls) :
             log.calls[i].raised /\ log.calls[i].result = <<>>
        /\ log.writes = <<>>
        /\ fs = fs0
        /\ pc = "exit" =>
             /\ exit_code # 0
             /\ log.out # <<>>

C16_Witness ==
    /\ IsWriter
    /\ Len(argv.pairs) = 2
    /\ In("=", argv.pairs[1])
    /\ ~In("=", argv.pairs[2])
    /\ fs0.env.exists
    /\ fs0.gitignore.exists
    /\ pc = "exit"
    /\ exit_code # 0

\* ---- C17
\* The entries of a run: the explicit pairs in order, then the token's.
C17_Entries ==
    argv.pairs \o
    (IF argv.github_pat # <<>>
     THEN <<W("GITHUB_PERSONAL_ACCESS_TOKEN") \o <<"=">> \o argv.github_pat>>
     ELSE <<>>)

\* C17: a finished run with the token and well-formed pairs (none of them,
\* too) has status 0 and the output file holds the pairs in order followed
\* by the token's entry, one line each.
C17_TokenEntryLast ==
    (IsWriter /\ pc = "exit" /\ argv.github_pat # <<>>
              /\ ~Malformed(argv.pairs)) =>
        /\ exit_code = 0
        /\ fs.env.exists
        /\ splitlines(fs.env.text) = C17_Entries
        /\ fs.env.text = Join(<<NL>>, C17_Entries) \o <<NL>>

\* ---- C18
IsRunner == "env_file" \in DOMAIN argv
\* text holds c, as a run of characters.
Contains(text, c) ==
    \E i \in 1..(Len(text) - Len(c) + 1) : SubSeq(text, i, i + Len(c) - 1) = c

\* The credential values of the run: what was typed at the masked prompt,
\* trimmed, or the --github-pat argument.
Credentials ==
    IF IsWriter
    THEN {argv.github_pat} \ {<<>>}
    ELSE IF IsRunner
    THEN {strip(log.typed[i].answer) :
             i \in {j \in 1..Len(log.typed) :
                       log.typed[j].prompt = "github_pat"}} \ {<<>>}
    ELSE {}

\* C18: at every point of every run of stack-runner and env-writer, no
\* printed message and no word of an external command holds the credential
\* value, and a write that holds it is a write of the env file.
C18_CredentialNotDisclosed ==
    \A c \in Credentials :
        /\ \A i \in 1..Len(log.out) : ~Contains(log.out[i], c)
        /\ \A i \in 1..Len(log.cmds) :
             \A k \in 1..Len(log.cmds[i].argv) :
                 ~Contains(log.cmds[i].argv[k], c)
        /\ \A i \in 1..Len(log.writes) :
             Contains(log.writes[i].text, c) => log.writes[i].file = "env"
        /\ ~Contains(fs.gitignore.text, c)

C18_Witness ==
    /\ IsRunner
    /\ Credentials # {}
    /\ \E c \in Credentials : Contains(fs.env.text, c)
    /\ \E i \in 1..Len(log.cmds) : IsCompose(log.cmds[i].argv)
    /\ log.out # <<>>
    /\ pc = "exit"
    /\ exit_code > 0

\* ---- C20
\* A run that may remedy a missing tool on the linux platform.
LinuxRemediation ==
    \/ IsJustRun("install-just") /\ platform_name(system) = "linux"
    \/ IsRunner /\ system = "Linux"
AptProbed(found) ==
    \E i \in 1..Len(log.probes) :
        log.probes[i].tool = "apt" /\ log.probes[i].found = found
CurlProbed(found) ==
    \E i \in 1..Len(log.probes) :
        log.probes[i].tool = "curl" /\ log.probes[i].found = found
IsAptUpdate(cmd) == cmd = <<W("sudo"), W("apt"), W("update")>>
IsAptInstall(cmd) ==
    IsPrefix(<<W("sudo"), W("apt"), W("install"), W("-y")>>, cmd)
IsCurl(cmd) ==
    cmd = <<W("bash"), W("-c"),
            W("curl -s https://just.systems/install.sh | bash")>>
\* The remediation came out as a success: _auto_install_linux returned
\* True, or r_try_install_docker_linux returned to r_main after its
\* commands.
RemediationSucceeded ==
    \/ IsJustRun("install-just") /\ log.calls # <<>> /\ log.calls[1].success
    \/ IsRunner /\ AptProbed(TRUE) /\ (pc \in {"pull", "up"} \/ Len(log.cmds) > 2)
\* The remediation has ended.
RemediationEnded ==
    \/ IsJustRun("install-just") /\ log.calls # <<>>
    \/ IsRunner /\ pc = "exit"

\* C20: on linux, with apt available the first command is the update step,
\* and the install step comes next once the update has returned 0; an
\* install step is run only right after an update step that returned 0;
\* the remediation succeeds only if both returned 0; the curl strategy is
\* run only when apt was looked for and not found; when no strategy's tool
\* is available, no command is run and the remediation fails.
C20_AptUpdateThenInstall ==
    LinuxRemediation =>
        /\ \A i \in 1..Len(log.cmds) :
             /\ IsAptUpdate(log.cmds[i].argv) => (i = 1 /\ AptProbed(TRUE))
             /\ IsAptInstall(log.cmds[i].argv) =>
                    /\ i = 2
                    /\ IsAptUpdate(log.cmds[1].argv)
                    /\ log.cmds[1].rc = 0
             /\ IsCurl(log.cmds[i].argv) =>
                    (i = 1 /\ AptProbed(FALSE) /\ ~AptProbed(TRUE))
        /\ (AptProbed(TRUE) /\ pc \notin {"apt_update", "just_apt_update"}) =>
               /\ log.cmds # <<>>
               /\ IsAptUpdate(log.cmds[1].argv)
               /\ (log.cmds[1].rc = 0
                     /\ pc \notin {"apt_install", "just_apt_install"}) =>
                      (Len(log.cmds) >= 2 /\ IsAptInstall(log.cmds[2].argv))
        /\ (AptProbed(TRUE) /\ RemediationSucceeded) =>
               /\ Len(log.cmds) >= 2
               /\ log.cmds[1].rc = 0
               /\ log.cmds[2].rc = 0
        /\ (IsJustRun("install-just") /\ AptProbed(FALSE)
                                      /\ CurlProbed(FALSE)) =>
               /\ log.cmds = <<>>
               /\ RemediationEnded
               /\ ~RemediationSucceeded
               /\ pc = "exit" /\ exit_code = 1
        /\ (IsRunner /\ AptProbed(FALSE)) =>
               /\ log.cmds = <<>>
               /\ ~RemediationSucceeded
               /\ pc = "exit" /\ exit_code = 1

C20_Witness ==
    /\ IsJustRun("install-just")
    /\ platform_name(system) = "linux"
    /\ AptProbed(TRUE)
    /\ "curl" \in onpath
    /\ Len(log.cmds) = 2
    /\ IsAptInstall(log.cmds[2].argv)
    /\ log.cmds[2].rc = 0
    /\ RemediationSucceeded

====
